---- MODULE Spec2Model ----
(***************************************************************************)
(* Form / Section / Question referential graph of the bidir-forms service. *)
(*                                                                         *)
(* The three stores (forms, sections, questions) are the Mongo collections *)
(* behind FormDal, SectionDal and QuestionDal.  Every controller is a      *)
(* generator run by koa/co: it suspends at each `yield` (one store call)   *)
(* and other requests may run in between.  A request is therefore modelled *)
(* as a slot with a program counter `pc` naming the store call it is       *)
(* suspended on; one action per store call completes that call and runs    *)
(* the synchronous code up to the next `yield`.                            *)
(*                                                                         *)
(* Ids are ObjectIds: globally unique, never reused.  They are modelled as *)
(* 1, 2, 3, ... handed out by nextId; 0 stands for "no document"           *)
(* (null, {} or an absent request field).                                  *)
(***************************************************************************)
EXTENDS Integers, Sequences, FiniteSets, TLC

VARIABLES forms, sections, questions, created, req

vars == <<forms, sections, questions, created, req>>

\* the id the next created document gets
nextId == created.form + created.section + created.question + 1

(***************************************************************************)
(* Bounds of the model.                                                    *)
(***************************************************************************)
\* number of forms, sections and questions ever created
MaxForms == 1
MaxSections == 1
MaxQuestions == 2
\* number of requests that can be in flight at the same time
NumSlots == 2
\* number of forms ever created in the specifications of form requests only
ConcForms == 2
\* number of sections ever created while section titles are exercised
TitledSections == 2

Slots == 1..NumSlots
\* the slot used when requests run one at a time
SeqSlots == {1}

Range(list) == {list[x] : x \in DOMAIN list}

\* request field absent / list empty / list with an element
ListShapes == {"absent", "empty", "nonempty"}
\* signatures of a Form: none, FORM.SIGNATURES of its type, a list from a request
SignatureShapes == {"absent", "default", "custom"}

\* FORM.TYPES, QUESTION.TYPES
FormTypeList == <<"SCREENING", "LOAN_APPLICATION", "GROUP_APPLICATION", "ACAT">>
FormTypes == Range(FormTypeList)
QuestionTypes == {"YES_NO", "FILL_IN_BLANK", "MULTIPLE_CHOICE", "SINGLE_CHOICE", "GROUPED"}
\* form types, section titles and question texts that requests carry: as many
\* types and titles as forms and sections can be created, and two texts
TypesUsed(max) == {FormTypeList[n] : n \in 1..(IF max < 4 THEN max ELSE 4)}
TitleList == <<"t1", "t2", "t3">>
TitlesUsed(max) == {TitleList[n] : n \in 1..(IF max < 3 THEN max ELSE 3)}
Texts == {"q1", "q2"}

(***************************************************************************)
(* Documents.  A record with _id = 0 is what a lookup yields when nothing  *)
(* matches (null from findOne/get, {} from delete).                        *)
(***************************************************************************)
NoForm == [_id |-> 0, type |-> "", has_sections |-> FALSE,
           signatures |-> "absent", questions |-> << >>, sections |-> << >>]
NoSection == [_id |-> 0, title |-> "", questions |-> << >>]
NoQuestion == [_id |-> 0, question_text |-> "", type |-> "",
               options |-> "absent", show |-> TRUE, prerequisites |-> "absent",
               sub_questions |-> << >>]

\* the request body / query string; a reference of 0 means the field is absent
NoBody == [permitted |-> TRUE, type |-> "", has_sections |-> FALSE, title |-> "",
           question_text |-> "", options |-> "absent", show |-> TRUE,
           prerequisites |-> "absent", form |-> 0, section |-> 0,
           parent_question |-> 0, id |-> 0, signatures |-> "absent"]

\* A request: the handler (op), the store call it is suspended on (pc), its
\* input (body), its local variables (form, section, parent, question and the
\* loop positions i, j, k) and how it ended (outcome).  Two fields are
\* bookkeeping for the properties below and are never read by a handler:
\* writes counts the store calls of the request that changed a collection,
\* pre is the content of the collections when the request arrived.
NoStore == [forms |-> << >>, sections |-> << >>, questions |-> << >>]
NoReq == [op |-> "none", pc |-> "idle", body |-> NoBody,
          form |-> NoForm, section |-> NoSection, parent |-> NoQuestion,
          question |-> NoQuestion, i |-> 0, j |-> 0, k |-> 0,
          outcome |-> "none", writes |-> 0, pre |-> NoStore]

(***************************************************************************)
(* Store primitives (the data-access layer and the mongoose models).       *)
(***************************************************************************)
\* Model.findOne({_id}) / Dal.get({_id}): the document, or null
FindForm(id) == IF id \in DOMAIN forms THEN forms[id] ELSE NoForm
FindSection(id) == IF id \in DOMAIN sections THEN sections[id] ELSE NoSection
FindQuestion(id) == IF id \in DOMAIN questions THEN questions[id] ELSE NoQuestion

\* FormDal.get({ type }), SectionDal.get({ title }), QuestionDal.get({ question_text })
FormWithType(t) == \E f \in DOMAIN forms : forms[f].type = t
SectionWithTitle(t) == \E s \in DOMAIN sections : sections[s].title = t
QuestionWithText(t) == \E q \in DOMAIN questions : questions[q].question_text = t

\* Dal.create: a new document under a fresh id
Insert(store, doc) == [x \in DOMAIN store \cup {doc._id} |->
                         IF x = doc._id THEN doc ELSE store[x]]
\* Dal.delete: the document leaves the collection (no effect when absent)
Delete(store, id) == [x \in DOMAIN store \ {id} |-> store[x]]

\* lodash _.pull(list, id): every occurrence of id is taken out
RECURSIVE Pull(_, _)
Pull(list, id) ==
  IF list = << >> THEN << >>
  ELSE IF Head(list) = id THEN Pull(Tail(list), id)
       ELSE <<Head(list)>> \o Pull(Tail(list), id)

\* number of occurrences of id in list
RECURSIVE Count(_, _)
Count(list, id) ==
  IF list = << >> THEN 0
  ELSE (IF Head(list) = id THEN 1 ELSE 0) + Count(Tail(list), id)

(***************************************************************************)
(* Request bookkeeping.                                                    *)
(***************************************************************************)
Idle(r) == req[r].pc = "idle"
QuestionOps == {"create", "createGrouped", "createFIB", "createMC", "createSC", "createYN"}
\* the collection a request adds a document to
KindOf(op) ==
  CASE op = "createForm" -> "form"
    [] op = "createSection" -> "section"
    [] op \in QuestionOps -> "question"
    [] OTHER -> "none"
\* requests in flight that have not yet stored their document
Pending(kind) ==
  Cardinality({r \in Slots : /\ KindOf(req[r].op) = kind
                             /\ req[r].pc \in {"perm", "findForm", "getType", "getTitle",
                                               "getText", "findParent", "findSection",
                                               "create"}})
CanCreate(kind, max) == created[kind] + Pending(kind) < max

\* the request ends: this.throw(...) or this.body = ...
Fail(r) == req' = [req EXCEPT ![r].pc = "done", ![r].outcome = "error"]
Succeed(r) == req' = [req EXCEPT ![r].pc = "done", ![r].outcome = "ok"]
Goto(r, pc) == req' = [req EXCEPT ![r].pc = pc]

Begin(r, op, pc, body) ==
  /\ Idle(r)
  /\ req' = [req EXCEPT ![r] = [NoReq EXCEPT !.op = op, !.pc = pc, !.body = body,
                                  !.pre = [forms |-> forms, sections |-> sections,
                                           questions |-> questions]]]
  /\ UNCHANGED <<forms, sections, questions, created>>

\* koa sends the response of a finished request; the slot is free again
Respond(r) ==
  /\ req[r].pc = "done"
  /\ req' = [req EXCEPT ![r] = NoReq]
  /\ UNCHANGED <<forms, sections, questions, created>>

Init ==
  /\ forms = << >>
  /\ sections = << >>
  /\ questions = << >>
  /\ created = [form |-> 0, section |-> 0, question |-> 0]
  /\ req = [r \in Slots |-> NoReq]

(***************************************************************************)
(* createForm                                                              *)
(***************************************************************************)
FormBodies ==
  {[NoBody EXCEPT !.permitted = p, !.type = t, !.has_sections = h] :
     p \in BOOLEAN, t \in TypesUsed(ConcForms) \cup {""}, h \in BOOLEAN}

CreateFormStart(r, body, max) ==
  /\ CanCreate("form", max)
  /\ Begin(r, "createForm", "perm", body)

\* hasPermission answers; checkBody('type').notEmpty().isIn(FORM.TYPES)
CreateFormPerm(r) ==
  /\ req[r].op = "createForm" /\ req[r].pc = "perm"
  /\ IF ~req[r].body.permitted THEN Fail(r)
     ELSE IF req[r].body.type \notin FormTypes THEN Fail(r)
     ELSE Goto(r, "getType")
  /\ UNCHANGED <<forms, sections, questions, created>>

\* FormDal.get({ type: body.type }) answers
CreateFormGet(r) ==
  /\ req[r].op = "createForm" /\ req[r].pc = "getType"
  /\ IF FormWithType(req[r].body.type) THEN Fail(r) ELSE Goto(r, "create")
  /\ UNCHANGED <<forms, sections, questions, created>>

\* body.signatures = FORM.SIGNATURES.LOAN / .SCREENING for these two types;
\* for the others the request's own field is stored
SignaturesOf(body) ==
  IF body.type \in {"LOAN_APPLICATION", "SCREENING"} THEN "default"
  ELSE body.signatures

\* FormDal.create(body) answers
CreateFormCreate(r) ==
  /\ req[r].op = "createForm" /\ req[r].pc = "create"
  /\ forms' = Insert(forms, [NoForm EXCEPT !._id = nextId,
                                            !.type = req[r].body.type,
                                            !.has_sections = req[r].body.has_sections,
                                            !.signatures = SignaturesOf(req[r].body)])
  /\ created' = [created EXCEPT !.form = @ + 1]
  /\ req' = [req EXCEPT ![r].pc = "done", ![r].outcome = "ok",
                        ![r].form = forms'[nextId], ![r].writes = @ + 1]
  /\ UNCHANGED <<sections, questions>>

CreateFormStep(r) ==
  \/ CreateFormPerm(r)
  \/ CreateFormGet(r)
  \/ CreateFormCreate(r)

(***************************************************************************)
(* updateForm                                                              *)
(***************************************************************************)
UpdateFormStart(r, body) == Begin(r, "updateForm", "perm", body)

\* hasPermission answers; checkBody('type').empty().isIn(FORM.TYPES) lets an
\* absent type pass
UpdateFormPerm(r) ==
  /\ req[r].op = "updateForm" /\ req[r].pc = "perm"
  /\ IF ~req[r].body.permitted THEN Fail(r)
     ELSE IF req[r].body.type \notin FormTypes \cup {""} THEN Fail(r)
     ELSE Goto(r, "get")
  /\ UNCHANGED <<forms, sections, questions, created>>

\* FormDal.get(query) answers; form.type of null throws, and so does a type
\* that is not the stored one
UpdateFormGet(r) ==
  /\ req[r].op = "updateForm" /\ req[r].pc = "get"
  /\ LET form == FindForm(req[r].body.id) IN
       IF form._id = 0 THEN Fail(r)
       ELSE IF req[r].body.type # form.type THEN Fail(r)
       ELSE req' = [req EXCEPT ![r].pc = "update", ![r].form = form]
  /\ UNCHANGED <<forms, sections, questions, created>>

\* UpdatePayload without `delete body.signatures`
UpdatePayload_Keep(body) == body

\* the patch handed to FormDal.update: the body after `delete body.signatures`
UpdatePayload(body) == [body EXCEPT !.signatures = "absent"]

\* FormDal.update(query, body) answers: the fields of the patch replace the
\* stored ones; form.title of null throws when no document matched
UpdateFormUpdate(r) ==
  /\ req[r].op = "updateForm" /\ req[r].pc = "update"
  /\ LET f == req[r].body.id
         patch == UpdatePayload(req[r].body) IN
       IF f \in DOMAIN forms
       THEN /\ forms' = [forms EXCEPT
                          ![f].type = patch.type,
                          ![f].has_sections = patch.has_sections,
                          ![f].signatures = IF patch.signatures = "absent" THEN @
                                            ELSE patch.signatures]
            /\ req' = [req EXCEPT ![r].pc = "done", ![r].outcome = "ok",
                                  ![r].form = forms'[f], ![r].writes = @ + 1]
       ELSE /\ forms' = forms
            /\ Fail(r)
  /\ UNCHANGED <<sections, questions, created>>

UpdateFormStep(r) ==
  \/ UpdateFormPerm(r)
  \/ UpdateFormGet(r)
  \/ UpdateFormUpdate(r)

(***************************************************************************)
(* createSection                                                           *)
(***************************************************************************)
CreateSectionStart(r, body, max) ==
  /\ CanCreate("section", max)
  /\ Begin(r, "createSection", "perm", body)

\* hasPermission answers; checkBody('title').notEmpty(), checkBody('form').notEmpty()
CreateSectionPerm(r) ==
  /\ req[r].op = "createSection" /\ req[r].pc = "perm"
  /\ IF ~req[r].body.permitted THEN Fail(r)
     ELSE IF req[r].body.title = "" \/ req[r].body.form = 0 THEN Fail(r)
     ELSE Goto(r, "findForm")
  /\ UNCHANGED <<forms, sections, questions, created>>

\* CreateSectionFindForm without `if(!form.has_sections) throw`
CreateSectionFindForm_AnyForm(r) ==
  /\ req[r].op = "createSection" /\ req[r].pc = "findForm"
  /\ LET form == FindForm(req[r].body.form) IN
       IF form._id = 0 THEN Fail(r)
       ELSE req' = [req EXCEPT ![r].pc = "getTitle", ![r].form = form]
  /\ UNCHANGED <<forms, sections, questions, created>>

\* Form.findOne({ _id: body.form }) answers; then the has_sections test
CreateSectionFindForm(r) ==
  /\ req[r].op = "createSection" /\ req[r].pc = "findForm"
  /\ LET form == FindForm(req[r].body.form) IN
       IF form._id = 0 THEN Fail(r)
       ELSE IF ~form.has_sections THEN Fail(r)
       ELSE req' = [req EXCEPT ![r].pc = "getTitle", ![r].form = form]
  /\ UNCHANGED <<forms, sections, questions, created>>

\* CreateSectionGet without `if(section) throw`
CreateSectionGet_AnyTitle(r) ==
  /\ req[r].op = "createSection" /\ req[r].pc = "getTitle"
  /\ Goto(r, "create")
  /\ UNCHANGED <<forms, sections, questions, created>>

\* SectionDal.get({ title: body.title }) answers
CreateSectionGet(r) ==
  /\ req[r].op = "createSection" /\ req[r].pc = "getTitle"
  /\ IF SectionWithTitle(req[r].body.title) THEN Fail(r) ELSE Goto(r, "create")
  /\ UNCHANGED <<forms, sections, questions, created>>

\* SectionDal.create(body) answers
CreateSectionCreate(r) ==
  /\ req[r].op = "createSection" /\ req[r].pc = "create"
  /\ sections' = Insert(sections, [NoSection EXCEPT !._id = nextId,
                                                    !.title = req[r].body.title])
  /\ created' = [created EXCEPT !.section = @ + 1]
  /\ req' = [req EXCEPT ![r].pc = "attach", ![r].section = sections'[nextId],
                        ![r].writes = @ + 1]
  /\ UNCHANGED <<forms, questions>>

\* FormDal.update({ _id: form._id }, { sections: sections }) answers:
\* the list read by findForm, with the new id pushed, replaces the stored list
CreateSectionAttach(r) ==
  /\ req[r].op = "createSection" /\ req[r].pc = "attach"
  /\ LET f == req[r].form._id
         list == Append(req[r].form.sections, req[r].section._id) IN
       IF f \in DOMAIN forms
       THEN /\ forms' = [forms EXCEPT ![f].sections = list]
            /\ req' = [req EXCEPT ![r].pc = "done", ![r].outcome = "ok",
                                  ![r].writes = @ + 1]
       ELSE /\ forms' = forms
            /\ Succeed(r)
  /\ UNCHANGED <<sections, questions, created>>

CreateSectionStep(r) ==
  \/ CreateSectionPerm(r)
  \/ CreateSectionFindForm(r)
  \/ CreateSectionGet(r)
  \/ CreateSectionCreate(r)
  \/ CreateSectionAttach(r)

(***************************************************************************)
(* create, createGrouped, createFIB, createMC, createSC, createYN          *)
(***************************************************************************)
\* the type the stored Question gets: body.type, or the one the path assigns
TypeOf(op, body) ==
  CASE op = "createGrouped" -> "GROUPED"
    [] op = "createFIB" -> "FILL_IN_BLANK"
    [] op = "createMC" -> "MULTIPLE_CHOICE"
    [] op = "createSC" -> "SINGLE_CHOICE"
    [] op = "createYN" -> "YES_NO"
    [] OTHER -> body.type

\* !body.show && !body.prerequisites : an absent field is falsy, a list
\* (an empty one too) is truthy
NeedsPrerequisites(body) == ~body.show /\ body.prerequisites = "absent"

\* if(body.options) in createFIB: any list is truthy
HasOptions(body) == body.options # "absent"

\* the checkBody(...) chain of each path; koa-validate's notEmpty rejects
\* null, undefined and '' only, so an empty list passes it
BodyInvalid(op, body) ==
  \/ body.form = 0
  \/ op = "create" /\ body.type \notin QuestionTypes
  \/ op # "create" /\ body.question_text = ""
  \/ op \in {"createMC", "createSC"} /\ body.options = "absent"

\* the synchronous checks that precede QuestionDal.create once every lookup
\* has answered
ChecksFail(op, body) ==
  \/ op = "createFIB" /\ HasOptions(body)
  \/ op # "create" /\ NeedsPrerequisites(body)

\* the pc after the parent lookup (or when there is none to do)
AfterParent(op, body) ==
  IF body.section # 0 THEN "findSection"
  ELSE IF ChecksFail(op, body) THEN "fail" ELSE "create"

Proceed(r, pc) == IF pc = "fail" THEN Fail(r) ELSE Goto(r, pc)

CreateQuestionStart(r, op, body, max) ==
  /\ op \in QuestionOps
  /\ CanCreate("question", max)
  /\ Begin(r, op, "perm", body)

\* hasPermission answers, then the checkBody chain
CreateQuestionPerm(r) ==
  /\ req[r].op \in QuestionOps /\ req[r].pc = "perm"
  /\ IF ~req[r].body.permitted THEN Fail(r)
     ELSE IF BodyInvalid(req[r].op, req[r].body) THEN Fail(r)
     ELSE Goto(r, "findForm")
  /\ UNCHANGED <<forms, sections, questions, created>>

\* Form.findOne({ _id: body.form }) answers
CreateQuestionFindForm(r) ==
  /\ req[r].op \in QuestionOps /\ req[r].pc = "findForm"
  /\ LET form == FindForm(req[r].body.form)
         op == req[r].op
         body == req[r].body
         pc == IF form._id = 0 THEN "fail"
               ELSE IF op = "create"
                    THEN IF body.parent_question = 0 THEN "getText"
                         ELSE IF NeedsPrerequisites(body) THEN "fail"
                         ELSE "findParent"
               ELSE IF op = "createGrouped" THEN AfterParent(op, body)
               ELSE IF body.parent_question # 0 THEN "findParent"
               ELSE AfterParent(op, body)
     IN IF pc = "fail" THEN Fail(r)
        ELSE req' = [req EXCEPT ![r].pc = pc, ![r].form = form]
  /\ UNCHANGED <<forms, sections, questions, created>>

\* QuestionDal.get({ question_text }) answers (generic create, no parent)
CreateQuestionGetText(r) ==
  /\ req[r].op = "create" /\ req[r].pc = "getText"
  /\ IF QuestionWithText(req[r].body.question_text) THEN Fail(r)
     ELSE IF NeedsPrerequisites(req[r].body) THEN Fail(r)
     ELSE Proceed(r, AfterParent(req[r].op, req[r].body))
  /\ UNCHANGED <<forms, sections, questions, created>>

\* CreateQuestionFindParent that does not keep the document it read
CreateQuestionFindParent_Forget(r) ==
  /\ req[r].op \in QuestionOps /\ req[r].pc = "findParent"
  /\ LET parent == FindQuestion(req[r].body.parent_question)
         pc == IF parent._id = 0 THEN "fail"
               ELSE AfterParent(req[r].op, req[r].body)
     IN Proceed(r, pc)
  /\ UNCHANGED <<forms, sections, questions, created>>

\* Question.findOne({ _id: body.parent_question }) answers
CreateQuestionFindParent(r) ==
  /\ req[r].op \in QuestionOps /\ req[r].pc = "findParent"
  /\ LET parent == FindQuestion(req[r].body.parent_question)
         pc == IF parent._id = 0 THEN "fail"
               ELSE AfterParent(req[r].op, req[r].body)
     IN IF pc = "fail" THEN Fail(r)
        ELSE req' = [req EXCEPT ![r].pc = pc, ![r].parent = parent]
  /\ UNCHANGED <<forms, sections, questions, created>>

\* Section.findOne({ _id: body.section }) answers
CreateQuestionFindSection(r) ==
  /\ req[r].op \in QuestionOps /\ req[r].pc = "findSection"
  /\ LET section == FindSection(req[r].body.section)
         pc == IF section._id = 0 THEN "fail"
               ELSE IF ChecksFail(req[r].op, req[r].body) THEN "fail"
               ELSE "create"
     IN IF pc = "fail" THEN Fail(r)
        ELSE req' = [req EXCEPT ![r].pc = pc, ![r].section = section]
  /\ UNCHANGED <<forms, sections, questions, created>>

\* QuestionDal.create(body) answers.  createGrouped then reads the variable
\* `parent`, which it never declares: with a parent_question the request
\* ends in a ReferenceError right after the Question was stored.
CreateQuestionCreate(r) ==
  /\ req[r].op \in QuestionOps /\ req[r].pc = "create"
  /\ questions' = Insert(questions,
        [NoQuestion EXCEPT !._id = nextId,
                           !.question_text = req[r].body.question_text,
                           !.type = TypeOf(req[r].op, req[r].body),
                           !.options = req[r].body.options,
                           !.show = req[r].body.show,
                           !.prerequisites = req[r].body.prerequisites])
  /\ created' = [created EXCEPT !.question = @ + 1]
  /\ IF req[r].op = "createGrouped" /\ req[r].body.parent_question # 0
     THEN req' = [req EXCEPT ![r].pc = "done", ![r].outcome = "error",
                             ![r].question = questions'[nextId],
                             ![r].writes = @ + 1]
     ELSE req' = [req EXCEPT ![r].pc = "attach",
                             ![r].question = questions'[nextId],
                             ![r].writes = @ + 1]
  /\ UNCHANGED <<forms, sections>>

\* CreateQuestionAttach storing a list that holds the new id only
CreateQuestionAttach_Overwrite(r) ==
  /\ req[r].op \in QuestionOps /\ req[r].pc = "attach"
  /\ LET body == req[r].body
         q == req[r].question._id
         wrote == [req EXCEPT ![r].pc = "done", ![r].outcome = "ok",
                              ![r].writes = @ + 1]
     IN /\ body.form \in DOMAIN forms
        /\ forms' = [forms EXCEPT ![body.form].questions = <<q>>]
        /\ req' = wrote
        /\ UNCHANGED <<sections, questions>>
  /\ UNCHANGED created

\* CreateQuestionAttach pushing the new id onto the list as it is stored at
\* the time of the update (an atomic $push) instead of the list read earlier
CreateQuestionAttach_Fresh(r) ==
  /\ req[r].op \in QuestionOps /\ req[r].pc = "attach"
  /\ LET body == req[r].body
         q == req[r].question._id
         done == [req EXCEPT ![r].pc = "done", ![r].outcome = "ok"]
         wrote == [done EXCEPT ![r].writes = @ + 1]
     IN IF body.parent_question # 0
        THEN LET p == req[r].parent._id IN
             /\ questions' = IF p \in DOMAIN questions
                             THEN [questions EXCEPT ![p].sub_questions = Append(@, q)]
                             ELSE questions
             /\ req' = IF p \in DOMAIN questions THEN wrote ELSE done
             /\ UNCHANGED <<forms, sections>>
        ELSE IF body.section # 0
        THEN LET s == req[r].section._id IN
             /\ sections' = IF s \in DOMAIN sections
                            THEN [sections EXCEPT ![s].questions = Append(@, q)]
                            ELSE sections
             /\ req' = IF s \in DOMAIN sections THEN wrote ELSE done
             /\ UNCHANGED <<forms, questions>>
        ELSE LET f == req[r].form._id IN
             /\ forms' = IF f \in DOMAIN forms
                         THEN [forms EXCEPT ![f].questions = Append(@, q)]
                         ELSE forms
             /\ req' = IF f \in DOMAIN forms THEN wrote ELSE done
             /\ UNCHANGED <<sections, questions>>
  /\ UNCHANGED created

\* the update of the container answers: QuestionDal.update (parent),
\* SectionDal.update (section) or FormDal.update (form) stores the list
\* that was read by the lookup, with the new id pushed
CreateQuestionAttach(r) ==
  /\ req[r].op \in QuestionOps /\ req[r].pc = "attach"
  /\ LET body == req[r].body
         q == req[r].question._id
         done == [req EXCEPT ![r].pc = "done", ![r].outcome = "ok"]
         wrote == [done EXCEPT ![r].writes = @ + 1]
     IN IF body.parent_question # 0
        THEN LET p == req[r].parent._id IN
             /\ questions' = IF p \in DOMAIN questions
                             THEN [questions EXCEPT ![p].sub_questions =
                                     Append(req[r].parent.sub_questions, q)]
                             ELSE questions
             /\ req' = IF p \in DOMAIN questions THEN wrote ELSE done
             /\ UNCHANGED <<forms, sections>>
        ELSE IF body.section # 0
        THEN LET s == req[r].section._id IN
             /\ sections' = IF s \in DOMAIN sections
                            THEN [sections EXCEPT ![s].questions =
                                    Append(req[r].section.questions, q)]
                            ELSE sections
             /\ req' = IF s \in DOMAIN sections THEN wrote ELSE done
             /\ UNCHANGED <<forms, questions>>
        ELSE LET f == req[r].form._id IN
             /\ forms' = IF f \in DOMAIN forms
                         THEN [forms EXCEPT ![f].questions =
                                 Append(req[r].form.questions, q)]
                         ELSE forms
             /\ req' = IF f \in DOMAIN forms THEN wrote ELSE done
             /\ UNCHANGED <<sections, questions>>
  /\ UNCHANGED created

CreateQuestionStep(r) ==
  \/ CreateQuestionPerm(r)
  \/ CreateQuestionFindForm(r)
  \/ CreateQuestionGetText(r)
  \/ CreateQuestionFindParent(r)
  \/ CreateQuestionFindSection(r)
  \/ CreateQuestionCreate(r)
  \/ CreateQuestionAttach(r)

(***************************************************************************)
(* removeQuestion                                                          *)
(***************************************************************************)
\* the request ends after LogDal.track
Finished(rq) == [rq EXCEPT !.pc = "done", !.outcome = "ok"]
Wrote(rq, did) == IF did THEN [rq EXCEPT !.writes = @ + 1] ELSE rq

RemoveQuestionStart(r, body) == Begin(r, "removeQuestion", "get", body)

\* QuestionDal.get({ _id: params.id }) answers
RemoveQuestionGet(r) ==
  /\ req[r].op = "removeQuestion" /\ req[r].pc = "get"
  /\ IF FindQuestion(req[r].body.id)._id = 0 THEN Fail(r) ELSE Goto(r, "delete")
  /\ UNCHANGED <<forms, sections, questions, created>>

\* RemoveQuestionDelete without `if(!this.query.form) throw`: a request with
\* no context ends after the delete
RemoveQuestionDelete_NoContext(r) ==
  /\ req[r].op = "removeQuestion" /\ req[r].pc = "delete"
  /\ LET question == FindQuestion(req[r].body.id)
         rq == Wrote([req[r] EXCEPT !.question = question], question._id # 0)
     IN /\ questions' = Delete(questions, req[r].body.id)
        /\ req' = [req EXCEPT ![r] =
                     IF req[r].body.parent_question # 0
                     THEN [rq EXCEPT !.pc = "findParent"]
                     ELSE IF req[r].body.form = 0
                     THEN Finished(rq)
                     ELSE [rq EXCEPT !.pc = "findForm"]]
  /\ UNCHANGED <<forms, sections, created>>

\* RemoveQuestionDelete that deletes the Sub-Questions of the Question too
RemoveQuestionDelete_Cascade(r) ==
  /\ req[r].op = "removeQuestion" /\ req[r].pc = "delete"
  /\ LET question == FindQuestion(req[r].body.id)
         rq == Wrote([req[r] EXCEPT !.question = question], question._id # 0)
     IN /\ questions' = [x \in DOMAIN questions \
                                  ({req[r].body.id} \cup Range(question.sub_questions))
                           |-> questions[x]]
        /\ req' = [req EXCEPT ![r] =
                     IF req[r].body.parent_question # 0
                     THEN [rq EXCEPT !.pc = "findParent"]
                     ELSE IF req[r].body.form = 0
                     THEN [rq EXCEPT !.pc = "done", !.outcome = "error"]
                     ELSE [rq EXCEPT !.pc = "findForm"]]
  /\ UNCHANGED <<forms, sections, created>>

\* QuestionDal.delete(query) answers; then the choice of the container
RemoveQuestionDelete(r) ==
  /\ req[r].op = "removeQuestion" /\ req[r].pc = "delete"
  /\ LET question == FindQuestion(req[r].body.id)
         rq == Wrote([req[r] EXCEPT !.question = question], question._id # 0)
     IN /\ questions' = Delete(questions, req[r].body.id)
        /\ req' = [req EXCEPT ![r] =
                     IF req[r].body.parent_question # 0
                     THEN [rq EXCEPT !.pc = "findParent"]
                     ELSE IF req[r].body.form = 0
                     THEN [rq EXCEPT !.pc = "done", !.outcome = "error"]
                     ELSE [rq EXCEPT !.pc = "findForm"]]
  /\ UNCHANGED <<forms, sections, created>>

\* Question.findOne({ _id: query.parent_question }) answers; reading
\* sub_questions of null throws
RemoveQuestionFindParent(r) ==
  /\ req[r].op = "removeQuestion" /\ req[r].pc = "findParent"
  /\ LET parent == FindQuestion(req[r].body.parent_question) IN
       IF parent._id = 0 THEN Fail(r)
       ELSE req' = [req EXCEPT ![r].pc = "updateParent", ![r].parent = parent]
  /\ UNCHANGED <<forms, sections, questions, created>>

\* QuestionDal.update({ _id: parent._id }, { sub_questions }) answers
RemoveQuestionUpdateParent(r) ==
  /\ req[r].op = "removeQuestion" /\ req[r].pc = "updateParent"
  /\ LET p == req[r].parent._id
         list == Pull(req[r].parent.sub_questions, req[r].question._id) IN
       /\ questions' = IF p \in DOMAIN questions
                       THEN [questions EXCEPT ![p].sub_questions = list]
                       ELSE questions
       /\ req' = [req EXCEPT ![r] = Finished(Wrote(req[r], p \in DOMAIN questions))]
  /\ UNCHANGED <<forms, sections, created>>

\* Form.findOne({ _id: query.form }) answers
RemoveQuestionFindForm(r) ==
  /\ req[r].op = "removeQuestion" /\ req[r].pc = "findForm"
  /\ LET form == FindForm(req[r].body.form) IN
       IF form._id = 0 THEN Fail(r)
       ELSE req' = [req EXCEPT ![r].pc = "updateForm", ![r].form = form]
  /\ UNCHANGED <<forms, sections, questions, created>>

\* the next turn of `for(let section of sections)`, k being the index reached
RemoveQuestionLoop(rq) ==
  IF rq.k <= Len(rq.form.sections) THEN [rq EXCEPT !.pc = "findSection"]
  ELSE Finished(rq)

\* RemoveQuestionUpdateForm writing back the list as it was read
RemoveQuestionUpdateForm_Keep(r) ==
  /\ req[r].op = "removeQuestion" /\ req[r].pc = "updateForm"
  /\ LET f == req[r].form._id
         list == req[r].form.questions IN
       /\ forms' = IF f \in DOMAIN forms
                   THEN [forms EXCEPT ![f].questions = list]
                   ELSE forms
       /\ req' = [req EXCEPT ![r] =
                    RemoveQuestionLoop([Wrote(req[r], f \in DOMAIN forms) EXCEPT !.k = 1])]
  /\ UNCHANGED <<sections, questions, created>>

\* FormDal.update({ _id: form._id }, { questions }) answers
RemoveQuestionUpdateForm(r) ==
  /\ req[r].op = "removeQuestion" /\ req[r].pc = "updateForm"
  /\ LET f == req[r].form._id
         list == Pull(req[r].form.questions, req[r].question._id) IN
       /\ forms' = IF f \in DOMAIN forms
                   THEN [forms EXCEPT ![f].questions = list]
                   ELSE forms
       /\ req' = [req EXCEPT ![r] =
                    RemoveQuestionLoop([Wrote(req[r], f \in DOMAIN forms) EXCEPT !.k = 1])]
  /\ UNCHANGED <<sections, questions, created>>

\* Section.findOne({ _id: section }) answers; `if(!section) continue`
RemoveQuestionFindSection(r) ==
  /\ req[r].op = "removeQuestion" /\ req[r].pc = "findSection"
  /\ LET section == FindSection(req[r].form.sections[req[r].k]) IN
       req' = [req EXCEPT ![r] =
                 IF section._id = 0
                 THEN RemoveQuestionLoop([req[r] EXCEPT !.k = @ + 1])
                 ELSE [req[r] EXCEPT !.pc = "updateSection", !.section = section]]
  /\ UNCHANGED <<forms, sections, questions, created>>

\* RemoveQuestionUpdateSection writing back the list as it was read
RemoveQuestionUpdateSection_Keep(r) ==
  /\ req[r].op = "removeQuestion" /\ req[r].pc = "updateSection"
  /\ LET s == req[r].section._id
         list == req[r].section.questions IN
       /\ sections' = IF s \in DOMAIN sections
                      THEN [sections EXCEPT ![s].questions = list]
                      ELSE sections
       /\ req' = [req EXCEPT ![r] =
                    RemoveQuestionLoop([Wrote(req[r], s \in DOMAIN sections)
                                          EXCEPT !.k = @ + 1])]
  /\ UNCHANGED <<forms, questions, created>>

\* SectionDal.update({ _id: section._id }, { questions }) answers
RemoveQuestionUpdateSection(r) ==
  /\ req[r].op = "removeQuestion" /\ req[r].pc = "updateSection"
  /\ LET s == req[r].section._id
         list == Pull(req[r].section.questions, req[r].question._id) IN
       /\ sections' = IF s \in DOMAIN sections
                      THEN [sections EXCEPT ![s].questions = list]
                      ELSE sections
       /\ req' = [req EXCEPT ![r] =
                    RemoveQuestionLoop([Wrote(req[r], s \in DOMAIN sections)
                                          EXCEPT !.k = @ + 1])]
  /\ UNCHANGED <<forms, questions, created>>

RemoveQuestionStep(r) ==
  \/ RemoveQuestionGet(r)
  \/ RemoveQuestionDelete(r)
  \/ RemoveQuestionFindParent(r)
  \/ RemoveQuestionUpdateParent(r)
  \/ RemoveQuestionFindForm(r)
  \/ RemoveQuestionUpdateForm(r)
  \/ RemoveQuestionFindSection(r)
  \/ RemoveQuestionUpdateSection(r)

(***************************************************************************)
(* removeForm                                                              *)
(***************************************************************************)
\* the next turn of `for(let section of form.sections)`
RemoveFormSections(rq) ==
  IF rq.k <= Len(rq.form.sections) THEN [rq EXCEPT !.pc = "delSection"]
  ELSE Finished(rq)

\* the next turn of `for(let question of form.questions)`
RemoveFormQuestions(rq) ==
  IF rq.i <= Len(rq.form.questions) THEN [rq EXCEPT !.pc = "delQuestion"]
  ELSE RemoveFormSections([rq EXCEPT !.k = 1])

\* the next turn of `for(let question of section.questions)`
RemoveFormSectionQuestions(rq) ==
  IF rq.i <= Len(rq.section.questions) THEN [rq EXCEPT !.pc = "delSecQuestion"]
  ELSE RemoveFormSections([rq EXCEPT !.k = @ + 1])

RemoveFormStart(r, body) == Begin(r, "removeForm", "delete", body)

\* RemoveFormDelete without `if(!form._id) throw`: the cascade runs over {}
RemoveFormDelete_Unchecked(r) ==
  /\ req[r].op = "removeForm" /\ req[r].pc = "delete"
  /\ LET form == FindForm(req[r].body.id) IN
       /\ forms' = Delete(forms, req[r].body.id)
       /\ req' = [req EXCEPT ![r] =
                    RemoveFormQuestions([Wrote(req[r], form._id # 0) EXCEPT
                                           !.form = form, !.i = 1])]
  /\ UNCHANGED <<sections, questions, created>>

\* FormDal.delete({ _id: params.id }) answers
RemoveFormDelete(r) ==
  /\ req[r].op = "removeForm" /\ req[r].pc = "delete"
  /\ LET form == FindForm(req[r].body.id) IN
       /\ forms' = Delete(forms, req[r].body.id)
       /\ req' = [req EXCEPT ![r] =
                    IF form._id = 0
                    THEN [req[r] EXCEPT !.pc = "done", !.outcome = "error"]
                    ELSE RemoveFormQuestions([req[r] EXCEPT !.form = form, !.i = 1,
                                                            !.writes = @ + 1])]
  /\ UNCHANGED <<sections, questions, created>>

\* QuestionDal.delete({ _id: question._id }) answers for a Question of
\* form.questions; sub_questions.length of {} throws
RemoveFormDelQuestion(r) ==
  /\ req[r].op = "removeForm" /\ req[r].pc = "delQuestion"
  /\ LET id == req[r].form.questions[req[r].i]
         question == FindQuestion(id) IN
       /\ questions' = Delete(questions, id)
       /\ req' = [req EXCEPT ![r] =
                    IF question._id = 0
                    THEN [req[r] EXCEPT !.pc = "done", !.outcome = "error"]
                    ELSE IF Len(question.sub_questions) > 0
                    THEN [req[r] EXCEPT !.pc = "delSub", !.question = question,
                                        !.j = 1, !.writes = @ + 1]
                    ELSE RemoveFormQuestions([req[r] EXCEPT !.question = question,
                                                !.i = @ + 1, !.writes = @ + 1])]
  /\ UNCHANGED <<forms, sections, created>>

\* QuestionDal.delete({ _id: _question._id }) answers for a Sub-Question
RemoveFormDelSub(r) ==
  /\ req[r].op = "removeForm" /\ req[r].pc = "delSub"
  /\ LET id == req[r].question.sub_questions[req[r].j]
         rq == Wrote(req[r], id \in DOMAIN questions) IN
       /\ questions' = Delete(questions, id)
       /\ req' = [req EXCEPT ![r] =
                    IF req[r].j < Len(req[r].question.sub_questions)
                    THEN [rq EXCEPT !.j = @ + 1]
                    ELSE RemoveFormQuestions([rq EXCEPT !.i = @ + 1])]
  /\ UNCHANGED <<forms, sections, created>>

\* SectionDal.delete({ _id: section._id }) answers; `if(section.questions)`
\* is false for {}
RemoveFormDelSection(r) ==
  /\ req[r].op = "removeForm" /\ req[r].pc = "delSection"
  /\ LET id == req[r].form.sections[req[r].k]
         section == FindSection(id) IN
       /\ sections' = Delete(sections, id)
       /\ req' = [req EXCEPT ![r] =
                    IF section._id = 0
                    THEN RemoveFormSections([req[r] EXCEPT !.section = section,
                                                           !.k = @ + 1])
                    ELSE RemoveFormSectionQuestions(
                           [req[r] EXCEPT !.section = section, !.i = 1,
                                          !.writes = @ + 1])]
  /\ UNCHANGED <<forms, questions, created>>

\* the id that the inner loop `for(let sub of question.sub_questions)` hands
\* to QuestionDal.delete: the source passes question._id, not sub._id
SubQuestionTarget(question, j) == question._id

\* QuestionDal.delete({ _id: question._id }) answers for a Question of
\* section.questions; iterating sub_questions of {} throws
RemoveFormDelSecQuestion(r) ==
  /\ req[r].op = "removeForm" /\ req[r].pc = "delSecQuestion"
  /\ LET id == req[r].section.questions[req[r].i]
         question == FindQuestion(id) IN
       /\ questions' = Delete(questions, id)
       /\ req' = [req EXCEPT ![r] =
                    IF question._id = 0
                    THEN [req[r] EXCEPT !.pc = "done", !.outcome = "error"]
                    ELSE IF Len(question.sub_questions) > 0
                    THEN [req[r] EXCEPT !.pc = "delSecSub", !.question = question,
                                        !.j = 1, !.writes = @ + 1]
                    ELSE RemoveFormSectionQuestions(
                           [req[r] EXCEPT !.question = question, !.i = @ + 1,
                                          !.writes = @ + 1])]
  /\ UNCHANGED <<forms, sections, created>>

\* the delete issued by the inner loop answers
RemoveFormDelSecSub(r) ==
  /\ req[r].op = "removeForm" /\ req[r].pc = "delSecSub"
  /\ LET id == SubQuestionTarget(req[r].question, req[r].j)
         rq == Wrote(req[r], id \in DOMAIN questions) IN
       /\ questions' = Delete(questions, id)
       /\ req' = [req EXCEPT ![r] =
                    IF req[r].j < Len(req[r].question.sub_questions)
                    THEN [rq EXCEPT !.j = @ + 1]
                    ELSE RemoveFormSectionQuestions([rq EXCEPT !.i = @ + 1])]
  /\ UNCHANGED <<forms, sections, created>>

RemoveFormStep(r) ==
  \/ RemoveFormDelete(r)
  \/ RemoveFormDelQuestion(r)
  \/ RemoveFormDelSub(r)
  \/ RemoveFormDelSection(r)
  \/ RemoveFormDelSecQuestion(r)
  \/ RemoveFormDelSecSub(r)

(***************************************************************************)
(* removeSection                                                           *)
(***************************************************************************)
\* the next turn of `for(let question of section.questions)`
RemoveSectionQuestions(rq) ==
  IF rq.i <= Len(rq.section.questions) THEN [rq EXCEPT !.pc = "delSecQuestion"]
  ELSE [rq EXCEPT !.pc = "updateForm"]

RemoveSectionStart(r, body) == Begin(r, "removeSection", "delete", body)

\* SectionDal.delete({ _id: params.id }) answers
RemoveSectionDelete(r) ==
  /\ req[r].op = "removeSection" /\ req[r].pc = "delete"
  /\ LET section == FindSection(req[r].body.id) IN
       /\ sections' = Delete(sections, req[r].body.id)
       /\ req' = [req EXCEPT ![r] =
                    [Wrote(req[r], section._id # 0) EXCEPT
                       !.pc = "findForm", !.section = section]]
  /\ UNCHANGED <<forms, questions, created>>

\* Form.findOne({ _id: query.form }) answers; then the two existence tests
RemoveSectionFindForm(r) ==
  /\ req[r].op = "removeSection" /\ req[r].pc = "findForm"
  /\ LET form == FindForm(req[r].body.form) IN
       IF req[r].section._id = 0 THEN Fail(r)
       ELSE IF form._id = 0 THEN Fail(r)
       ELSE req' = [req EXCEPT ![r] =
                      RemoveSectionQuestions([req[r] EXCEPT !.form = form, !.i = 1])]
  /\ UNCHANGED <<forms, sections, questions, created>>

\* QuestionDal.delete({ _id: question._id }) answers for a Question of
\* section.questions; iterating sub_questions of {} throws
RemoveSectionDelQuestion(r) ==
  /\ req[r].op = "removeSection" /\ req[r].pc = "delSecQuestion"
  /\ LET id == req[r].section.questions[req[r].i]
         question == FindQuestion(id) IN
       /\ questions' = Delete(questions, id)
       /\ req' = [req EXCEPT ![r] =
                    IF question._id = 0
                    THEN [req[r] EXCEPT !.pc = "done", !.outcome = "error"]
                    ELSE IF Len(question.sub_questions) > 0
                    THEN [req[r] EXCEPT !.pc = "delSecSub", !.question = question,
                                        !.j = 1, !.writes = @ + 1]
                    ELSE RemoveSectionQuestions(
                           [req[r] EXCEPT !.question = question, !.i = @ + 1,
                                          !.writes = @ + 1])]
  /\ UNCHANGED <<forms, sections, created>>

\* the delete issued by the inner loop answers (same target as in removeForm)
RemoveSectionDelSub(r) ==
  /\ req[r].op = "removeSection" /\ req[r].pc = "delSecSub"
  /\ LET id == SubQuestionTarget(req[r].question, req[r].j)
         rq == Wrote(req[r], id \in DOMAIN questions) IN
       /\ questions' = Delete(questions, id)
       /\ req' = [req EXCEPT ![r] =
                    IF req[r].j < Len(req[r].question.sub_questions)
                    THEN [rq EXCEPT !.j = @ + 1]
                    ELSE RemoveSectionQuestions([rq EXCEPT !.i = @ + 1])]
  /\ UNCHANGED <<forms, sections, created>>

\* FormDal.update({ _id: form._id }, { sections }) answers
RemoveSectionUpdateForm(r) ==
  /\ req[r].op = "removeSection" /\ req[r].pc = "updateForm"
  /\ LET f == req[r].form._id
         list == Pull(req[r].form.sections, req[r].section._id) IN
       /\ forms' = IF f \in DOMAIN forms
                   THEN [forms EXCEPT ![f].sections = list]
                   ELSE forms
       /\ req' = [req EXCEPT ![r] = Finished(Wrote(req[r], f \in DOMAIN forms))]
  /\ UNCHANGED <<sections, questions, created>>

RemoveSectionStep(r) ==
  \/ RemoveSectionDelete(r)
  \/ RemoveSectionFindForm(r)
  \/ RemoveSectionDelQuestion(r)
  \/ RemoveSectionDelSub(r)
  \/ RemoveSectionUpdateForm(r)

(***************************************************************************)
(* A store call that fails.  The promise a handler is suspended on is      *)
(* rejected: the call has no effect on the collections, the `yield` throws *)
(* and the handler's catch block ends the request with this.throw(...).    *)
(***************************************************************************)
\* CascadeFault with a catch block that puts back what the request deleted
CascadeFault_Compensate(r) ==
  /\ req[r].op \in {"removeForm", "removeSection"}
  /\ req[r].pc \notin {"idle", "done"}
  /\ Fail(r)
  /\ forms' = req[r].pre.forms
  /\ sections' = req[r].pre.sections
  /\ questions' = req[r].pre.questions
  /\ UNCHANGED created

\* the store call a removeForm or removeSection request waits for fails
CascadeFault(r) ==
  /\ req[r].op \in {"removeForm", "removeSection"}
  /\ req[r].pc \notin {"idle", "done"}
  /\ Fail(r)
  /\ UNCHANGED <<forms, sections, questions, created>>

(***************************************************************************)
(* The referential graph: requests running one at a time, every handler,   *)
(* bodies that pass field validation.                                      *)
(***************************************************************************)
\* an id that names no document
Missing == MaxForms + MaxSections + MaxQuestions + 1
\* every id handed out so far (documents of any kind, deleted ones too)
Issued == 1..(nextId - 1)

\* options that pass the path's own validation
ValidOptions(op) == IF op \in {"createMC", "createSC"} THEN "nonempty" ELSE "absent"

GraphOps == {"create", "createGrouped", "createFIB"}
GraphTexts == {"q1"}

GraphFormBodies ==
  {[NoBody EXCEPT !.type = t, !.has_sections = h] :
     t \in TypesUsed(MaxForms), h \in BOOLEAN}

GraphSectionBodies ==
  {[NoBody EXCEPT !.title = t, !.form = f] :
     t \in TitlesUsed(MaxSections), f \in DOMAIN forms}

GraphQuestionBodies(op) ==
  {[NoBody EXCEPT !.type = t, !.question_text = x, !.options = ValidOptions(op),
                  !.form = f, !.section = s, !.parent_question = q] :
     t \in (IF op = "create" THEN {"FILL_IN_BLANK"} ELSE {""}),
     x \in GraphTexts, f \in DOMAIN forms, s \in DOMAIN sections \cup {0},
     q \in DOMAIN questions \cup {0}}

RemoveQuestionBodies ==
  {[NoBody EXCEPT !.id = i, !.form = f, !.parent_question = q] :
     i \in DOMAIN questions \cup {Missing}, f \in DOMAIN forms \cup {0},
     q \in DOMAIN questions \cup {0}}
RemoveSectionBodies ==
  {[NoBody EXCEPT !.id = i, !.form = f] :
     i \in DOMAIN sections \cup {Missing}, f \in DOMAIN forms \cup {Missing}}
RemoveFormBodies == {[NoBody EXCEPT !.id = i] : i \in Issued \cup {Missing}}

Next ==
  \E r \in SeqSlots :
    \/ Idle(r) /\ \E body \in GraphFormBodies : CreateFormStart(r, body, MaxForms)
    \/ CreateFormStep(r)
    \/ Idle(r) /\ \E body \in GraphSectionBodies : CreateSectionStart(r, body, MaxSections)
    \/ CreateSectionStep(r)
    \/ Idle(r) /\ \E op \in GraphOps : \E body \in GraphQuestionBodies(op) :
         CreateQuestionStart(r, op, body, MaxQuestions)
    \/ CreateQuestionStep(r)
    \/ Idle(r) /\ \E body \in RemoveQuestionBodies : RemoveQuestionStart(r, body)
    \/ RemoveQuestionStep(r)
    \/ Idle(r) /\ \E body \in RemoveFormBodies : RemoveFormStart(r, body)
    \/ RemoveFormStep(r)
    \/ Idle(r) /\ \E body \in RemoveSectionBodies : RemoveSectionStart(r, body)
    \/ RemoveSectionStep(r)
    \/ Respond(r)

Spec == Init /\ [][Next]_vars

(***************************************************************************)
(* The creation paths: requests running one at a time, every create        *)
(* handler, references that may name no document.                          *)
(***************************************************************************)
CreateSectionBodies ==
  {[NoBody EXCEPT !.title = t, !.form = f] :
     t \in TitlesUsed(MaxSections), f \in DOMAIN forms \cup {Missing}}

CreateQuestionBodies(op) ==
  {[NoBody EXCEPT !.type = t, !.question_text = x, !.options = ValidOptions(op),
                  !.form = f, !.section = s, !.parent_question = q] :
     t \in (IF op = "create" THEN {"YES_NO"} ELSE {""}),
     x \in Texts, f \in DOMAIN forms \cup {Missing},
     s \in DOMAIN sections \cup {0, Missing},
     q \in DOMAIN questions \cup {0, Missing}}

NextCreate ==
  \E r \in SeqSlots :
    \/ Idle(r) /\ \E body \in GraphFormBodies : CreateFormStart(r, body, MaxForms)
    \/ CreateFormStep(r)
    \/ Idle(r) /\ \E body \in CreateSectionBodies : CreateSectionStart(r, body, MaxSections)
    \/ CreateSectionStep(r)
    \/ Idle(r) /\ \E op \in QuestionOps : \E body \in CreateQuestionBodies(op) :
         CreateQuestionStart(r, op, body, MaxQuestions)
    \/ CreateQuestionStep(r)
    \/ Respond(r)

SpecCreate == Init /\ [][NextCreate]_vars

(***************************************************************************)
(* The type rules: requests running one at a time against one Form, every  *)
(* create-question handler, every shape of options, show and               *)
(* prerequisites, with or without a parent Question or a Section           *)
(* reference (the Form has no Section, so a reference names none).         *)
(***************************************************************************)
PlainFormBodies == {[NoBody EXCEPT !.type = FormTypeList[1]]}

ShapedQuestionBodies(op) ==
  {[NoBody EXCEPT !.type = t, !.question_text = "q1", !.options = o, !.show = w,
                  !.prerequisites = p, !.form = f, !.section = s,
                  !.parent_question = q] :
     t \in (IF op = "create" THEN QuestionTypes ELSE {""}),
     o \in ListShapes, w \in BOOLEAN, p \in ListShapes, f \in DOMAIN forms,
     s \in {0, Missing}, q \in DOMAIN questions \cup {0}}

NextValidate ==
  \E r \in SeqSlots :
    \/ Idle(r) /\ \E body \in PlainFormBodies : CreateFormStart(r, body, 1)
    \/ CreateFormStep(r)
    \/ Idle(r) /\ \E op \in QuestionOps : \E body \in ShapedQuestionBodies(op) :
         CreateQuestionStart(r, op, body, MaxQuestions)
    \/ CreateQuestionStep(r)
    \/ Respond(r)

SpecValidate == Init /\ [][NextValidate]_vars

(***************************************************************************)
(* Form requests running concurrently.                                     *)
(***************************************************************************)
NextForms ==
  \E r \in Slots :
    \/ Idle(r) /\ \E body \in FormBodies : CreateFormStart(r, body, ConcForms)
    \/ CreateFormStep(r)
    \/ Respond(r)

SpecForms == Init /\ [][NextForms]_vars

(***************************************************************************)
(* Question requests running concurrently against one Form without         *)
(* sections.                                                               *)
(***************************************************************************)
RaceOps == {"create", "createYN"}

RaceQuestionBodies(op) ==
  {[NoBody EXCEPT !.type = t, !.question_text = x, !.options = ValidOptions(op),
                  !.form = f, !.section = s, !.parent_question = q] :
     t \in (IF op = "create" THEN {"YES_NO"} ELSE {""}),
     x \in GraphTexts, f \in DOMAIN forms, s \in {0, Missing},
     q \in DOMAIN questions \cup {0}}

NextRace ==
  \E r \in Slots :
    \/ Idle(r) /\ \E body \in PlainFormBodies : CreateFormStart(r, body, 1)
    \/ CreateFormStep(r)
    \/ Idle(r) /\ \E op \in RaceOps : \E body \in RaceQuestionBodies(op) :
         CreateQuestionStart(r, op, body, MaxQuestions)
    \/ CreateQuestionStep(r)
    \/ Respond(r)

SpecRace == Init /\ [][NextRace]_vars

(***************************************************************************)
(* Permissions: the requests of the referential graph, one at a time, each *)
(* with either answer of the permission checker for its actor.             *)
(***************************************************************************)
WithPermission(bodies) ==
  {[body EXCEPT !.permitted = p] : body \in bodies, p \in BOOLEAN}

NextPerm ==
  \E r \in SeqSlots :
    \/ Idle(r) /\ \E body \in WithPermission(GraphFormBodies) :
         CreateFormStart(r, body, MaxForms)
    \/ CreateFormStep(r)
    \/ Idle(r) /\ \E body \in WithPermission(GraphSectionBodies) :
         CreateSectionStart(r, body, MaxSections)
    \/ CreateSectionStep(r)
    \/ Idle(r) /\ \E op \in GraphOps : \E body \in WithPermission(GraphQuestionBodies(op)) :
         CreateQuestionStart(r, op, body, MaxQuestions)
    \/ CreateQuestionStep(r)
    \/ Idle(r) /\ \E body \in WithPermission(RemoveQuestionBodies) :
         RemoveQuestionStart(r, body)
    \/ RemoveQuestionStep(r)
    \/ Idle(r) /\ \E body \in WithPermission(RemoveFormBodies) : RemoveFormStart(r, body)
    \/ RemoveFormStep(r)
    \/ Idle(r) /\ \E body \in WithPermission(RemoveSectionBodies) :
         RemoveSectionStart(r, body)
    \/ RemoveSectionStep(r)
    \/ Respond(r)

SpecPerm == Init /\ [][NextPerm]_vars

(***************************************************************************)
(* Section titles: create-form and create-section requests running one at  *)
(* a time, with as many titles as Sections can be created.                 *)
(***************************************************************************)
TitledSectionBodies ==
  WithPermission({[NoBody EXCEPT !.title = t, !.form = f] :
                    t \in TitlesUsed(TitledSections) \cup {""},
                    f \in DOMAIN forms \cup {Missing}})

NextTitles ==
  \E r \in SeqSlots :
    \/ Idle(r) /\ \E body \in GraphFormBodies : CreateFormStart(r, body, MaxForms)
    \/ CreateFormStep(r)
    \/ Idle(r) /\ \E body \in TitledSectionBodies :
         CreateSectionStart(r, body, TitledSections)
    \/ CreateSectionStep(r)
    \/ Respond(r)

SpecTitles == Init /\ [][NextTitles]_vars

(***************************************************************************)
(* Cascades over a store whose calls can fail: the graph is built by       *)
(* create requests and taken down by remove-form and remove-section        *)
(* requests, one request at a time.                                        *)
(***************************************************************************)
NextFaults ==
  \E r \in SeqSlots :
    \/ Idle(r) /\ \E body \in GraphFormBodies : CreateFormStart(r, body, MaxForms)
    \/ CreateFormStep(r)
    \/ Idle(r) /\ \E body \in GraphSectionBodies : CreateSectionStart(r, body, MaxSections)
    \/ CreateSectionStep(r)
    \/ Idle(r) /\ \E op \in GraphOps : \E body \in GraphQuestionBodies(op) :
         CreateQuestionStart(r, op, body, MaxQuestions)
    \/ CreateQuestionStep(r)
    \/ Idle(r) /\ \E body \in RemoveFormBodies : RemoveFormStart(r, body)
    \/ RemoveFormStep(r)
    \/ Idle(r) /\ \E body \in RemoveSectionBodies : RemoveSectionStart(r, body)
    \/ RemoveSectionStep(r)
    \/ CascadeFault(r)
    \/ Respond(r)

SpecFaults == Init /\ [][NextFaults]_vars

(***************************************************************************)
(* Create-question requests running concurrently with remove-form          *)
(* requests.                                                               *)
(***************************************************************************)
CascadeQuestionBodies(op) ==
  {[NoBody EXCEPT !.type = t, !.question_text = x, !.options = ValidOptions(op),
                  !.form = f, !.section = s, !.parent_question = q] :
     t \in (IF op = "create" THEN {"YES_NO"} ELSE {""}),
     x \in GraphTexts, f \in DOMAIN forms, s \in DOMAIN sections \cup {0},
     q \in DOMAIN questions \cup {0}}

NextCascadeRace ==
  \E r \in Slots :
    \/ Idle(r) /\ \E body \in GraphFormBodies : CreateFormStart(r, body, MaxForms)
    \/ CreateFormStep(r)
    \/ Idle(r) /\ \E body \in GraphSectionBodies : CreateSectionStart(r, body, MaxSections)
    \/ CreateSectionStep(r)
    \/ Idle(r) /\ \E op \in RaceOps : \E body \in CascadeQuestionBodies(op) :
         CreateQuestionStart(r, op, body, MaxQuestions)
    \/ CreateQuestionStep(r)
    \/ Idle(r) /\ \E body \in RemoveFormBodies : RemoveFormStart(r, body)
    \/ RemoveFormStep(r)
    \/ Respond(r)

SpecCascadeRace == Init /\ [][NextCascadeRace]_vars

(***************************************************************************)
(* Create-form and update-form requests running one at a time.             *)
(***************************************************************************)
\* Forms are created without sections; an update asks for sections
TypedFormBodies == {[NoBody EXCEPT !.type = t] : t \in TypesUsed(ConcForms)}

UpdateFormBodies ==
  {[NoBody EXCEPT !.permitted = p, !.type = t, !.has_sections = TRUE,
                  !.signatures = g, !.id = i] :
     p \in BOOLEAN, t \in TypesUsed(ConcForms) \cup {""}, g \in {"absent", "custom"},
     i \in DOMAIN forms \cup {Missing}}

NextUpdate ==
  \E r \in SeqSlots :
    \/ Idle(r) /\ \E body \in TypedFormBodies : CreateFormStart(r, body, ConcForms)
    \/ CreateFormStep(r)
    \/ Idle(r) /\ \E body \in UpdateFormBodies : UpdateFormStart(r, body)
    \/ UpdateFormStep(r)
    \/ Respond(r)

SpecUpdate == Init /\ [][NextUpdate]_vars

(***************************************************************************)
(* Properties.                                                             *)
(***************************************************************************)
\* no request is between two store calls
Quiescent == \A r \in Slots : req[r].pc \in {"idle", "done"}
Done(r, op) == req[r].op = op /\ req[r].pc = "done"
Ended(r, op, outcome) == Done(r, op) /\ req[r].outcome = outcome

\* the collections are what they were when request r arrived
StoreUntouched(r) ==
  /\ forms = req[r].pre.forms
  /\ sections = req[r].pre.sections
  /\ questions = req[r].pre.questions

\* the places of the child lists of stored documents that hold id q
Places(q) ==
  UNION {{<<"form", f, n>> : n \in {m \in DOMAIN forms[f].questions :
                                      forms[f].questions[m] = q}} : f \in DOMAIN forms}
  \cup UNION {{<<"section", s, n>> : n \in {m \in DOMAIN sections[s].questions :
                                      sections[s].questions[m] = q}} : s \in DOMAIN sections}
  \cup UNION {{<<"question", p, n>> : n \in {m \in DOMAIN questions[p].sub_questions :
                                      questions[p].sub_questions[m] = q}} : p \in DOMAIN questions}

\* in store st: the Questions listed by the Sections sl, the Sub-Questions
\* listed by the Questions ql
QuestionsOf(st, sl) ==
  UNION {Range(st.sections[x].questions) : x \in sl \cap DOMAIN st.sections}
SubQuestionsOf(st, ql) ==
  UNION {Range(st.questions[x].sub_questions) : x \in ql \cap DOMAIN st.questions}
\* in store st: every Question and Sub-Question that Form f references,
\* directly or through its Sections; that Section s references
FormQuestions(st, f) ==
  LET top == Range(st.forms[f].questions)
               \cup QuestionsOf(st, Range(st.forms[f].sections))
  IN top \cup SubQuestionsOf(st, top)
SectionQuestions(st, s) ==
  LET top == Range(st.sections[s].questions) IN top \cup SubQuestionsOf(st, top)

\* C3: in every quiescent state the id of every stored Question occurs in
\* exactly one child list (form.questions, section.questions or
\* question.sub_questions) of the stored documents, and occurs there once.
C3_OneContainer ==
  Quiescent => \A q \in DOMAIN questions : Cardinality(Places(q)) = 1

\* C4: after a remove-form request for Form f has completed successfully the
\* store holds neither f, nor a Section of f.sections, nor a Question of
\* f.questions or of one of those Sections, nor a Sub-Question of any of
\* those Questions.
C4_RemoveFormCascade ==
  \A r \in Slots :
    Ended(r, "removeForm", "ok") =>
      LET st == req[r].pre
          f == req[r].body.id
      IN /\ f \notin DOMAIN forms
         /\ Range(st.forms[f].sections) \cap DOMAIN sections = {}
         /\ FormQuestions(st, f) \cap DOMAIN questions = {}

\* C5: after a remove-section request for Section s with Form f as context
\* has completed successfully the store holds neither s, nor a Question of
\* s.questions, nor a Sub-Question of those, and s is not in f.sections.
C5_RemoveSectionCascade ==
  \A r \in Slots :
    Ended(r, "removeSection", "ok") =>
      LET st == req[r].pre
          s == req[r].body.id
          f == req[r].body.form
      IN /\ s \notin DOMAIN sections
         /\ SectionQuestions(st, s) \cap DOMAIN questions = {}
         /\ f \in DOMAIN forms => s \notin Range(forms[f].sections)

\* C6: a remove-form request for an id that names no stored Form (a repeat of
\* a completed remove-form, for one) ends in an error and leaves every Form,
\* Section and Question as it was.
C6_RemoveMissingForm ==
  \A r \in Slots :
    (Done(r, "removeForm") /\ req[r].body.id \notin DOMAIN req[r].pre.forms) =>
      /\ req[r].outcome = "error"
      /\ req[r].writes = 0
      /\ StoreUntouched(r)

\* the remove-form of a Form that was created and removed before is repeated
\* while Questions are still stored
C6_Witness ==
  \E r \in Slots :
    /\ Ended(r, "removeForm", "error")
    /\ req[r].body.id \in Issued
    /\ created.form > 0 /\ DOMAIN forms = {}
    /\ DOMAIN questions # {}

\* C1: the store holds at most one Form for each type value, also when
\* create-form requests that carry the same type run interleaved.
C1_OneFormPerType ==
  \A f, g \in DOMAIN forms : forms[f].type = forms[g].type => f = g

\* request r has created a Question for a Form without sections, with no
\* parent_question and no section
PlainCreate(r) ==
  /\ req[r].op \in QuestionOps
  /\ req[r].body.parent_question = 0
  /\ req[r].body.section = 0
  /\ req[r].body.form \in DOMAIN req[r].pre.forms
  /\ ~req[r].pre.forms[req[r].body.form].has_sections

\* C2: when a create-question request (any of the six paths) against a Form
\* with has_sections = false, with no parent_question and no section, has
\* succeeded with no other request interleaved, form.questions is the previous
\* list with the new id appended and holds that id exactly once.
C2_AppendedToForm ==
  \A r \in Slots :
    (PlainCreate(r) /\ req[r].pc = "done" /\ req[r].outcome = "ok") =>
      LET f == req[r].body.form
          q == req[r].question._id
      IN /\ q \in DOMAIN questions
         /\ forms[f].questions = Append(req[r].pre.forms[f].questions, q)
         /\ Count(forms[f].questions, q) = 1

\* the generic create has appended to a list that already held a Question
C2_Witness ==
  \E r \in Slots :
    /\ PlainCreate(r) /\ Ended(r, "create", "ok")
    /\ Len(req[r].pre.forms[req[r].body.form].questions) > 0

\* C7: on every creation path a request with non-empty options whose
\* Question type is FILL_IN_BLANK fails, adds no Question and changes no
\* child list.
C7_FillInBlankRejectsOptions ==
  \A r \in Slots :
    (/\ req[r].op \in QuestionOps /\ req[r].pc = "done"
     /\ TypeOf(req[r].op, req[r].body) = "FILL_IN_BLANK"
     /\ req[r].body.options = "nonempty") =>
      req[r].outcome = "error" /\ StoreUntouched(r)

\* C8: on every creation path a request with empty or absent options whose
\* Question type is MULTIPLE_CHOICE or SINGLE_CHOICE fails, adds no Question
\* and changes no child list.
C8_ChoiceRequiresOptions ==
  \A r \in Slots :
    (/\ req[r].op \in QuestionOps /\ req[r].pc = "done"
     /\ TypeOf(req[r].op, req[r].body) \in {"MULTIPLE_CHOICE", "SINGLE_CHOICE"}
     /\ req[r].body.options \in {"absent", "empty"}) =>
      req[r].outcome = "error" /\ StoreUntouched(r)

\* C9: every create-question request with show = false whose prerequisites
\* is absent or an empty list fails and adds no Question, so every stored
\* Question has show = true or a non-empty prerequisites list.
C9_HiddenRequiresPrerequisites ==
  /\ \A r \in Slots :
       (/\ req[r].op \in QuestionOps /\ req[r].pc = "done"
        /\ ~req[r].body.show
        /\ req[r].body.prerequisites \in {"absent", "empty"}) =>
         req[r].outcome = "error" /\ StoreUntouched(r)
  /\ \A q \in DOMAIN questions :
       questions[q].show \/ questions[q].prerequisites = "nonempty"

\* C10: a create-section request against a Form whose has_sections is false
\* fails, adds no Section and leaves the Form's sections list as it was; a
\* successful create-section appends the new Section's id to the sections
\* list of a Form whose has_sections is true.
C10_SectionNeedsHasSections ==
  \A r \in Slots :
    Done(r, "createSection") =>
      LET f == req[r].body.form
          st == req[r].pre
      IN /\ (f \in DOMAIN st.forms /\ ~st.forms[f].has_sections) =>
              /\ req[r].outcome = "error"
              /\ sections = st.sections
              /\ forms = st.forms
         /\ req[r].outcome = "ok" =>
              /\ f \in DOMAIN st.forms /\ st.forms[f].has_sections
              /\ req[r].section._id \in DOMAIN sections
              /\ forms[f].has_sections
              /\ forms[f].sections = Append(st.forms[f].sections, req[r].section._id)

\* a create-section request against a stored Form without sections has ended
C10_Witness ==
  \E r \in Slots :
    /\ Done(r, "createSection")
    /\ req[r].body.form \in DOMAIN forms
    /\ ~forms[req[r].body.form].has_sections

\* request r is a create-question request that has ended
CreateDone(r) == req[r].op \in QuestionOps /\ req[r].pc = "done"
CreateOk(r) == CreateDone(r) /\ req[r].outcome = "ok"

\* C11: on every create-question path, when the request carries
\* parent_question (with or without a section), a successful creation appends
\* the new id to the parent Question's sub_questions and to no other list:
\* every Form and every Section is as it was when the request arrived.
C11_AppendedToParentOnly ==
  \A r \in Slots :
    (CreateOk(r) /\ req[r].body.parent_question # 0) =>
      LET p == req[r].body.parent_question
          q == req[r].question._id
          st == req[r].pre
      IN /\ q \in DOMAIN questions /\ q \notin DOMAIN st.questions
         /\ p \in DOMAIN st.questions /\ p \in DOMAIN questions
         /\ questions[p].sub_questions = Append(st.questions[p].sub_questions, q)
         /\ forms = st.forms
         /\ sections = st.sections

\* a request that names both a stored Section and a stored parent Question
\* has succeeded
C11_Witness ==
  \E r \in Slots :
    /\ CreateOk(r)
    /\ req[r].body.parent_question \in DOMAIN req[r].pre.questions
    /\ req[r].body.section \in DOMAIN req[r].pre.sections

\* request r names a Form, a Section or a parent Question that was not in the
\* store when it arrived
NamesMissing(r) ==
  LET body == req[r].body
      st == req[r].pre
  IN \/ body.form \notin DOMAIN st.forms
     \/ body.section # 0 /\ body.section \notin DOMAIN st.sections
     \/ body.parent_question # 0 /\ body.parent_question \notin DOMAIN st.questions

\* C12: a create-question request that references a Form, a Section or a
\* parent Question that is not in the store fails, adds no Question and
\* writes no child list.
C12_MissingContainerRejected ==
  \A r \in Slots :
    (CreateDone(r) /\ NamesMissing(r)) =>
      req[r].outcome = "error" /\ StoreUntouched(r)

\* C14: a successful create-question request with no parent_question appends
\* the new id to form.questions if and only if the Form's has_sections is
\* false; when has_sections is true the id is appended to the questions list
\* of a Section of that Form and form.questions is unchanged.
C14_PlacedByHasSections ==
  \A r \in Slots :
    (CreateOk(r) /\ req[r].body.parent_question = 0) =>
      LET f == req[r].body.form
          q == req[r].question._id
          st == req[r].pre
      IN IF ~st.forms[f].has_sections
         THEN forms[f].questions = Append(st.forms[f].questions, q)
         ELSE /\ forms[f].questions = st.forms[f].questions
              /\ \E s \in Range(st.forms[f].sections) \cap DOMAIN st.sections :
                   /\ s \in DOMAIN sections
                   /\ sections[s].questions = Append(st.sections[s].questions, q)

\* the text of request r is the question_text of a Question that was stored
\* when r arrived
DuplicateText(r) ==
  \E q \in DOMAIN req[r].pre.questions :
    req[r].pre.questions[q].question_text = req[r].body.question_text

\* C17: on every creation path a request without parent_question whose
\* question_text is that of a stored Question fails and adds no Question; a
\* request with parent_question is not rejected for a duplicate question_text.
C17_UniqueTextAtTopLevel ==
  \A r \in Slots :
    (CreateDone(r) /\ DuplicateText(r)) =>
      IF req[r].body.parent_question = 0
      THEN req[r].outcome = "error" /\ questions = req[r].pre.questions
      ELSE (/\ req[r].op # "createGrouped"
            /\ req[r].body.permitted
            /\ ~NamesMissing(r)) => req[r].outcome = "ok"

\* requests r1 and r2 are two create-question requests (no parent_question,
\* no section) against the same Form without sections that have both
\* succeeded, each having read the same form.questions before the other's
\* write
RacedCreates(r1, r2) ==
  /\ r1 # r2
  /\ CreateOk(r1) /\ CreateOk(r2)
  /\ req[r1].body.parent_question = 0 /\ req[r1].body.section = 0
  /\ req[r2].body.parent_question = 0 /\ req[r2].body.section = 0
  /\ req[r1].body.form = req[r2].body.form
  /\ ~req[r1].form.has_sections
  /\ req[r1].form.questions = req[r2].form.questions

\* C13: when two create-question requests against the same Form (has_sections
\* false, no parent_question, no section) interleave so that each reads
\* form.questions before the other's write, both succeed and both Questions
\* are stored, yet form.questions never holds both ids: each request writes
\* back the list it read.  C13_Witness is the interleaving that exists.
C13_LostAttachment ==
  \A r1, r2 \in Slots :
    RacedCreates(r1, r2) =>
      LET f == req[r1].body.form
          q1 == req[r1].question._id
          q2 == req[r2].question._id
      IN /\ q1 # q2
         /\ {q1, q2} \subseteq DOMAIN questions
         /\ f \in DOMAIN forms
         /\ ~({q1, q2} \subseteq Range(forms[f].questions))

\* both requests have succeeded, both Questions are stored, and form.questions
\* holds the id of exactly one of them
C13_Witness ==
  \E r1, r2 \in Slots :
    /\ RacedCreates(r1, r2)
    /\ {req[r1].question._id, req[r2].question._id} \subseteq DOMAIN questions
    /\ Cardinality({req[r1].question._id, req[r2].question._id}
                     \cap Range(forms[req[r1].body.form].questions)) = 1

\* C15: for every operation that mutates the store (create and remove of a
\* Form, a Section or a Question), when the permission checker answers false
\* for the requesting actor the request ends in an error and performs no
\* create, update or delete on the store.
C15_DeniedMutatesNothing ==
  \A r \in Slots :
    (req[r].pc = "done" /\ ~req[r].body.permitted) =>
      /\ req[r].outcome = "error"
      /\ req[r].writes = 0
      /\ StoreUntouched(r)

\* C16: a remove-question request that supplies neither a form nor a
\* parent_question context ends in an error.
C16_RemoveNeedsContext ==
  \A r \in Slots :
    (/\ Done(r, "removeQuestion")
     /\ req[r].body.form = 0
     /\ req[r].body.parent_question = 0) => req[r].outcome = "error"

\* a remove-question request without context for a stored Question has ended:
\* it got past the existence test to the test of the context
C16_Witness ==
  \E r \in Slots :
    /\ Done(r, "removeQuestion")
    /\ req[r].body.form = 0 /\ req[r].body.parent_question = 0
    /\ req[r].body.id \in DOMAIN req[r].pre.questions

\* C18: during a remove-form request the Form record is deleted only after
\* every Question, Sub-Question and Section it references: in no state of the
\* request is the Form gone from the store while a Section or Question it
\* referenced is still there.
C18_FormDeletedLast ==
  \A r \in Slots :
    (/\ req[r].op = "removeForm"
     /\ req[r].body.id \in DOMAIN req[r].pre.forms
     /\ req[r].body.id \notin DOMAIN forms) =>
      LET st == req[r].pre
          f == req[r].body.id
      IN /\ Range(st.forms[f].sections) \cap DOMAIN sections = {}
         /\ FormQuestions(st, f) \cap DOMAIN questions = {}

\* C19: during a remove-section request the Section's Questions and their
\* Sub-Questions are deleted first, then the Section's id is taken out of
\* form.sections, then the Section record is deleted: in no state of the
\* request is the Section gone from the store while its id is still in a
\* sections list or one of its Questions is still stored.
C19_SectionDeletedLast ==
  \A r \in Slots :
    (/\ req[r].op = "removeSection"
     /\ req[r].body.id \in DOMAIN req[r].pre.sections
     /\ req[r].body.id \notin DOMAIN sections) =>
      LET st == req[r].pre
          s == req[r].body.id
      IN /\ \A f \in DOMAIN forms : s \notin Range(forms[f].sections)
         /\ SectionQuestions(st, s) \cap DOMAIN questions = {}

\* list with every occurrence of id taken out
Without(list, id) == SelectSeq(list, LAMBDA x : x # id)

C22_OnlyGroupedHasSubQuestions ==
  \A q \in DOMAIN questions :
    questions[q].sub_questions # << >> => questions[q].type = "GROUPED"

\* C23: a remove-question request for a GROUPED Question deletes only that
\* Question record: every Sub-Question listed in its sub_questions is still
\* in the store afterwards, unchanged.
C23_SubQuestionsSurvive ==
  \A r \in Slots :
    (/\ Done(r, "removeQuestion")
     /\ req[r].body.id \in DOMAIN req[r].pre.questions
     /\ req[r].pre.questions[req[r].body.id].type = "GROUPED") =>
      LET id == req[r].body.id
          st == req[r].pre
      IN /\ DOMAIN questions = DOMAIN st.questions \ {id}
         /\ \A u \in Range(st.questions[id].sub_questions) \cap DOMAIN st.questions :
              u \in DOMAIN questions /\ questions[u] = st.questions[u]

\* a GROUPED Question that listed a stored Sub-Question has been removed
C23_Witness ==
  \E r \in Slots :
    /\ Ended(r, "removeQuestion", "ok")
    /\ req[r].body.id \in DOMAIN req[r].pre.questions
    /\ req[r].pre.questions[req[r].body.id].type = "GROUPED"
    /\ Range(req[r].pre.questions[req[r].body.id].sub_questions)
         \cap DOMAIN req[r].pre.questions # {}

\* the title of request r is the title of a Section that was stored when r
\* arrived
DuplicateTitle(r) ==
  \E s \in DOMAIN req[r].pre.sections :
    req[r].pre.sections[s].title = req[r].body.title

\* C24: a create-section request whose title is that of a stored Section (of
\* any Form) fails, adds no Section and leaves form.sections unchanged; so
\* with create-section requests run one at a time no two Sections share a
\* title.
C24_UniqueSectionTitle ==
  /\ \A r \in Slots :
       (Done(r, "createSection") /\ DuplicateTitle(r)) =>
         /\ req[r].outcome = "error"
         /\ sections = req[r].pre.sections
         /\ forms = req[r].pre.forms
  /\ \A s, t \in DOMAIN sections : sections[s].title = sections[t].title => s = t

\* a create-section request against a Form with sections, carrying the title
\* of a stored Section, has ended while another Section could still be created
C24_Witness ==
  \E r \in Slots :
    /\ Done(r, "createSection") /\ DuplicateTitle(r)
    /\ req[r].body.form \in DOMAIN req[r].pre.forms
    /\ req[r].pre.forms[req[r].body.form].has_sections

\* collection now is collection before with some documents taken out, the
\* others as they were
Remainder(now, before) ==
  /\ DOMAIN now \subseteq DOMAIN before
  /\ \A x \in DOMAIN now : now[x] = before[x]

\* number of documents of the store st
Stored(st) ==
  Cardinality(DOMAIN st.forms) + Cardinality(DOMAIN st.sections)
    + Cardinality(DOMAIN st.questions)

\* request r is a remove-form or remove-section request that ended in an error
CascadeFailed(r) ==
  req[r].op \in {"removeForm", "removeSection"}
    /\ req[r].pc = "done" /\ req[r].outcome = "error"

\* C25: when a store call fails in the middle of a remove-form or
\* remove-section cascade the request ends in an error, undoes none of the
\* deletions it applied (every document it deleted stays deleted, no document
\* or list is written) and issues no further store operation.
C25_FailedCascadeStops ==
  /\ [](\A r \in Slots :
          CascadeFailed(r) =>
            /\ Remainder(forms, req[r].pre.forms)
            /\ Remainder(sections, req[r].pre.sections)
            /\ Remainder(questions, req[r].pre.questions)
            /\ Stored(req[r].pre)
                 - Stored([forms |-> forms, sections |-> sections,
                           questions |-> questions]) = req[r].writes)
  /\ [][\A r \in Slots :
          CascadeFailed(r) => UNCHANGED <<forms, sections, questions>>]_vars

\* a cascade over a Form or Section whose children were all stored has ended
\* in an error after it deleted something, with a child still in the store
C25_Witness ==
  \E r \in Slots :
    /\ CascadeFailed(r)
    /\ req[r].writes > 0
    /\ LET st == req[r].pre
           kids == IF req[r].op = "removeForm"
                   THEN FormQuestions(st, req[r].body.id)
                   ELSE SectionQuestions(st, req[r].body.id)
       IN /\ kids \subseteq DOMAIN st.questions
          /\ kids \cap DOMAIN questions # {}

\* C26: in every quiescent state reached by completed create and remove
\* requests (whatever context ids the remove requests supply) every id in a
\* form.questions, form.sections, section.questions or
\* question.sub_questions list is the id of a stored entity.
C26_NoDanglingReference ==
  Quiescent =>
    /\ \A f \in DOMAIN forms :
         /\ Range(forms[f].questions) \subseteq DOMAIN questions
         /\ Range(forms[f].sections) \subseteq DOMAIN sections
    /\ \A s \in DOMAIN sections : Range(sections[s].questions) \subseteq DOMAIN questions
    /\ \A q \in DOMAIN questions : Range(questions[q].sub_questions) \subseteq DOMAIN questions

\* C27: a create request (create-form, create-section or any create-question
\* path, createGrouped with a parent_question included) that ends in an error
\* has added no Form, Section or Question to the store.
C27_FailedCreateAddsNothing ==
  \A r \in Slots :
    (/\ req[r].op \in {"createForm", "createSection"} \cup QuestionOps
     /\ req[r].pc = "done" /\ req[r].outcome = "error") =>
      /\ DOMAIN forms = DOMAIN req[r].pre.forms
      /\ DOMAIN sections = DOMAIN req[r].pre.sections
      /\ DOMAIN questions = DOMAIN req[r].pre.questions

\* C28: a remove-question or remove-section request that ends in an error
\* (missing form context, Form not found, Section or Question not found) has
\* deleted nothing: the stored Forms, Sections and Questions and every child
\* list are what they were before the request.
C28_FailedRemoveDeletesNothing ==
  \A r \in Slots :
    (/\ req[r].op \in {"removeQuestion", "removeSection"}
     /\ req[r].pc = "done" /\ req[r].outcome = "error") => StoreUntouched(r)

\* C29: when a create-question request against Form f runs interleaved with a
\* remove-form request for f, then once both have finished the store holds no
\* Question created for f: either the creation failed, or the new Question
\* was attached in time and deleted by the cascade.
C29_NoQuestionOutlivesForm ==
  \A r1, r2 \in Slots :
    (/\ CreateDone(r1)
     /\ Ended(r2, "removeForm", "ok")
     /\ req[r1].body.form = req[r2].body.id) =>
      req[r1].question._id \notin DOMAIN questions

\* C30: an update-form request never changes the stored type or the stored
\* signatures of a Form: a request whose type differs from the stored type
\* (or is absent) ends in an error without a write, a signatures field in the
\* request is discarded before the write, and no step of an update-form
\* request adds a Form; so update-form cannot make a second Form of an
\* existing type.
C30_UpdateKeepsTypeAndSignatures ==
  /\ [](\A r \in Slots :
          (/\ Done(r, "updateForm")
           /\ req[r].body.id \in DOMAIN req[r].pre.forms
           /\ req[r].body.type # req[r].pre.forms[req[r].body.id].type) =>
            req[r].outcome = "error" /\ req[r].writes = 0)
  /\ [][/\ \A f \in DOMAIN forms \cap DOMAIN forms' :
             /\ forms'[f].type = forms[f].type
             /\ forms'[f].signatures = forms[f].signatures
        /\ \A r \in Slots :
             (req[r].op = "updateForm" /\ req'[r] # req[r]) =>
               DOMAIN forms' = DOMAIN forms]_vars

\* an update-form request that carried a signatures field has succeeded and
\* changed the Form
C30_Witness ==
  \E r \in Slots :
    /\ Ended(r, "updateForm", "ok")
    /\ req[r].body.signatures = "custom"
    /\ req[r].writes = 1
    /\ req[r].form.has_sections # req[r].pre.forms[req[r].body.id].has_sections

====
